---- MODULE Spec2Model ----
(***************************************************************************)
(* The smoothing filters of the hand-tracking ring overlay:                *)
(*   KalmanFilter, ExponentialSmoothing     (src/src/utils/kalmanFilter.ts *)
(*                                           and RingScene3D.tsx 150-211)  *)
(*   ExponentialSmoothing3D, four scalar filters                           *)
(*                                          (src/src/utils/kalmanFilter.ts)*)
(*   ExponentialSmoothing3D, teleport-aware direct tracker                 *)
(*                                  (src/src/components/RingScene3D.tsx)   *)
(*                                                                         *)
(*   RingScene3D, the pixel-to-world mapping of the ring positions         *)
(*     (src/src/components/RingScene3D.tsx 21-139, src/unnamed/part_001)   *)
(*   HandTracking, the component that owns the registry of smoothers and   *)
(*   runs the detection loop     (src/src/components/HandTracking.tsx)     *)
(*                                                                         *)
(* A behaviour of Spec constructs one object of one of the four filter     *)
(* classes and then calls its methods in any order with inputs from small  *)
(* sets.  A behaviour of TrackingSpec mounts one HandTracking component    *)
(* and runs the tasks of its effects and of its detection loop.  A         *)
(* behaviour of SceneSpec renders one RingScene3D component with changing  *)
(* props and panel values.                                                 *)
(*                                                                         *)
(* Numbers.  A JavaScript number is modelled by an exact rational <<n, d>> *)
(* in lowest terms with d > 0, so a result is the value the expression has *)
(* before IEEE-754 rounding.  Math.sqrt is avoided by keeping squares: the *)
(* jump distance and the velocity magnitude are never negative, so         *)
(* jumpDistance > t is jumpDistance^2 > t^2 for t >= 0, and                *)
(* velocityMagnitude > 15 is velocityMagnitude^2 > 225.                    *)
(***************************************************************************)
EXTENDS Integers, Sequences, FiniteSets, TLC

VARIABLES
    cls,    \* the class of the object under test
    obj,    \* the object's fields
    now,    \* performance.now(), in milliseconds
    calls,  \* number of method calls made so far
    last    \* the last call: its method, arguments, the fields before it, its result

vars == <<cls, obj, now, calls, last>>

----------------------------------------------------------------------------
(* Bounds of the model                                                     *)

\* method calls made on a teleport-aware ExponentialSmoothing3D
MaxCalls == 3

\* method calls made on an object of one of the other classes
MaxScalarCalls == 4

----------------------------------------------------------------------------
(* Exact rational arithmetic                                               *)

Abs(n) == IF n < 0 THEN -n ELSE n

RECURSIVE GCD(_, _)
GCD(a, b) == IF b = 0 THEN a ELSE GCD(b, a % b)

Norm(n, d) ==
    LET g == GCD(Abs(n), Abs(d))
        s == IF d < 0 THEN -1 ELSE 1
    IN  <<(s * n) \div g, (s * d) \div g>>

R(n) == <<n, 1>>

RNeg(a) == <<-a[1], a[2]>>

RAdd(a, b) ==
    LET g == GCD(a[2], b[2])
        l == (a[2] \div g) * b[2]
    IN  Norm(a[1] * (l \div a[2]) + b[1] * (l \div b[2]), l)

RSub(a, b) == RAdd(a, RNeg(b))

RMul(a, b) ==
    LET g1 == GCD(Abs(a[1]), b[2])
        g2 == GCD(Abs(b[1]), a[2])
    IN  Norm((a[1] \div g1) * (b[1] \div g2), (a[2] \div g2) * (b[2] \div g1))

\* a / b for b # 0
RDiv(a, b) == RMul(a, Norm(b[2], b[1]))

RLt(a, b) == RSub(a, b)[1] < 0

RLe(a, b) == RSub(a, b)[1] <= 0

\* v lies in the closed interval between a and b
RBetween(v, a, b) ==
    \/ RLe(a, v) /\ RLe(v, b)
    \/ RLe(b, v) /\ RLe(v, a)

\* v lies in the open interval between a and b
RStrictlyBetween(v, a, b) ==
    \/ RLt(a, v) /\ RLt(v, b)
    \/ RLt(b, v) /\ RLt(v, a)

One == R(1)
Zero == R(0)

----------------------------------------------------------------------------
(* KalmanFilter                                                            *)

\* constructor(processNoise, measurementNoise, initialValue)
KalmanFilter_new(processNoise, measurementNoise, initialValue) ==
    [x |-> initialValue, p |-> One, q |-> processNoise, r |-> measurementNoise]

\* the gain k computed from the predicted covariance
KalmanGain(p, r) == RDiv(p, RAdd(p, r))

\* a faulty filter: the correction is k * measurement, not k * (measurement - x)
KalmanFilter_filter_dropsEstimate(s, measurement) ==
    LET p1 == RAdd(s.p, s.q)
        k  == KalmanGain(p1, s.r)
    IN  [s EXCEPT !.x = RAdd(s.x, RMul(k, measurement)),
                  !.p = RMul(RSub(One, k), p1)]

\* a faulty filter: the covariance update subtracts the gain, p = p - k
KalmanFilter_filter_subtractsGain(s, measurement) ==
    LET p1 == RAdd(s.p, s.q)
        k  == KalmanGain(p1, s.r)
    IN  [s EXCEPT !.x = RAdd(s.x, RMul(k, RSub(measurement, s.x))),
                  !.p = RSub(p1, k)]

\* filter(measurement): the fields after the call; the return value is x
KalmanFilter_filter(s, measurement) ==
    LET p1 == RAdd(s.p, s.q)
        k  == KalmanGain(p1, s.r)
    IN  [s EXCEPT !.x = RAdd(s.x, RMul(k, RSub(measurement, s.x))),
                  !.p = RMul(RSub(One, k), p1)]

\* a faulty reset: the covariance is left as it was
KalmanFilter_reset_keepsCovariance(s, value) == [s EXCEPT !.x = value]

\* reset(value)
KalmanFilter_reset(s, value) == [s EXCEPT !.x = value, !.p = One]

----------------------------------------------------------------------------
(* ExponentialSmoothing                                                    *)

ExponentialSmoothing_new(alpha, initialValue) ==
    [value |-> initialValue, alpha |-> alpha]

\* filter(measurement): the fields after the call; the return value is value
ExponentialSmoothing_filter(s, measurement) ==
    [s EXCEPT !.value = RAdd(RMul(s.alpha, measurement),
                             RMul(RSub(One, s.alpha), s.value))]

ExponentialSmoothing_reset(s, value) == [s EXCEPT !.value = value]

----------------------------------------------------------------------------
(* ExponentialSmoothing3D of utils/kalmanFilter.ts: four scalar filters.   *)
(* This is the class HandTracking.tsx imports and constructs with 0.8.     *)

ExponentialSmoothing3D_utils_new(alpha) ==
    [xFilter        |-> ExponentialSmoothing_new(alpha, Zero),
     yFilter        |-> ExponentialSmoothing_new(alpha, Zero),
     zFilter        |-> ExponentialSmoothing_new(alpha, Zero),
     rotationFilter |-> ExponentialSmoothing_new(RMul(alpha, <<9, 10>>), Zero)]

\* filter(x, y, z, rotation): the fields after the call
ExponentialSmoothing3D_utils_filter(s, x, y, z, rotation) ==
    [xFilter        |-> ExponentialSmoothing_filter(s.xFilter, x),
     yFilter        |-> ExponentialSmoothing_filter(s.yFilter, y),
     zFilter        |-> ExponentialSmoothing_filter(s.zFilter, z),
     rotationFilter |-> ExponentialSmoothing_filter(s.rotationFilter, rotation)]

\* what filter returns: the four filtered values
ExponentialSmoothing3D_utils_out(s) ==
    <<s.xFilter.value, s.yFilter.value, s.zFilter.value, s.rotationFilter.value>>

ExponentialSmoothing3D_utils_reset(s, x, y, z, rotation) ==
    [xFilter        |-> ExponentialSmoothing_reset(s.xFilter, x),
     yFilter        |-> ExponentialSmoothing_reset(s.yFilter, y),
     zFilter        |-> ExponentialSmoothing_reset(s.zFilter, z),
     rotationFilter |-> ExponentialSmoothing_reset(s.rotationFilter, rotation)]

----------------------------------------------------------------------------
(* ExponentialSmoothing3D of RingScene3D.tsx: direct tracker with          *)
(* teleportation.  velocityMagnitudeSq holds velocityMagnitude squared.    *)

TeleportThresholdDefault == 150
MovingThreshold == 15

microAlpha == <<1, 5>>

\* the field initialisers; the constructor ignores its parameters
ExponentialSmoothing3D_new ==
    [previousX |-> Zero, previousY |-> Zero, previousZ |-> Zero,
     velocityMagnitudeSq |-> Zero,
     previousTimestamp |-> 0,
     isFirstFrame |-> TRUE,
     microX |-> Zero, microY |-> Zero, microZ |-> Zero, microRotation |-> Zero,
     teleportThreshold |-> R(TeleportThresholdDefault),
     lastTeleportTime |-> 0]

\* "Initialize on first frame"
FirstFrame(s, x, y, z, rotation, t) ==
    [s EXCEPT !.microX = x, !.microY = y, !.microZ = z, !.microRotation = rotation,
              !.previousX = x, !.previousY = y, !.previousZ = z,
              !.isFirstFrame = FALSE,
              !.previousTimestamp = t]

\* jumpDistance squared: dx*dx + dy*dy + dz*dz
JumpDistanceSq(s, x, y, z) ==
    LET dx == RSub(x, s.previousX)
        dy == RSub(y, s.previousY)
        dz == RSub(z, s.previousZ)
    IN  RAdd(RAdd(RMul(dx, dx), RMul(dy, dy)), RMul(dz, dz))

\* deltaTime = (now - previousTimestamp) / 1000
DeltaTime(s, t) == Norm(t - s.previousTimestamp, 1000)

\* a faulty velocity update: an elapsed time that is not positive sets the
\* velocity to zero, the update is "treated as still"
UpdateVelocity_zeroOnInvalid(s, jumpDistanceSq, t) ==
    IF s.previousTimestamp > 0 /\ RLt(Zero, DeltaTime(s, t))
    THEN [velocityMagnitudeSq |->
              RDiv(jumpDistanceSq, RMul(DeltaTime(s, t), DeltaTime(s, t))),
          divisor |-> DeltaTime(s, t)]
    ELSE [velocityMagnitudeSq |-> Zero, divisor |-> "none"]

\* a faulty velocity update: an elapsed time below 10 ms is clamped to 10 ms
\* and the division is always made
UpdateVelocity_clampedDelta(s, jumpDistanceSq, t) ==
    LET dt == IF RLt(DeltaTime(s, t), <<1, 100>>) THEN <<1, 100>> ELSE DeltaTime(s, t)
    IN  [velocityMagnitudeSq |-> RDiv(jumpDistanceSq, RMul(dt, dt)),
         divisor |-> dt]

\* "Calculate velocity for movement detection": the new velocityMagnitude
\* squared and the divisor used ("none" when nothing is divided)
UpdateVelocity(s, jumpDistanceSq, t) ==
    IF s.previousTimestamp > 0 /\ RLt(Zero, DeltaTime(s, t))
    THEN [velocityMagnitudeSq |->
              RDiv(jumpDistanceSq, RMul(DeltaTime(s, t), DeltaTime(s, t))),
          divisor |-> DeltaTime(s, t)]
    ELSE [velocityMagnitudeSq |-> s.velocityMagnitudeSq, divisor |-> "none"]

\* shouldTeleport = jumpDistance > teleportThreshold
ShouldTeleport(jumpDistanceSq, teleportThreshold) ==
    RLt(RMul(teleportThreshold, teleportThreshold), jumpDistanceSq)

\* a faulty classifier: the velocity is compared with the teleport distance
IsMoving_wrongThreshold(velocityMagnitudeSq) ==
    RLt(R(TeleportThresholdDefault * TeleportThresholdDefault), velocityMagnitudeSq)

\* a faulty classifier: a velocity of exactly 15 counts as moving
IsMoving_atOrAbove(velocityMagnitudeSq) ==
    RLe(R(MovingThreshold * MovingThreshold), velocityMagnitudeSq)

\* isMoving = velocityMagnitude > 15
IsMoving(velocityMagnitudeSq) ==
    RLt(R(MovingThreshold * MovingThreshold), velocityMagnitudeSq)

\* a faulty blend: no smoothing at all
MicroSmooth_raw(raw, micro) == raw

\* a faulty blend: the weights are 1.2 and -0.2
MicroSmooth_overshoot(raw, micro) ==
    RAdd(RMul(<<6, 5>>, raw), RMul(RSub(One, <<6, 5>>), micro))

\* microAlpha * raw + (1 - microAlpha) * micro
MicroSmooth(raw, micro) ==
    RAdd(RMul(microAlpha, raw), RMul(RSub(One, microAlpha), micro))

\* a faulty snap: the raw values are returned but the micro values are kept
SnapMicro_keepsMicro(s, x, y, z, rotation) == s

\* the teleport and the direct-tracking branch: micro values take the raw ones
SnapMicro(s, x, y, z, rotation) ==
    [s EXCEPT !.microX = x, !.microY = y, !.microZ = z, !.microRotation = rotation]

\* the still branch: micro-smoothing of each channel
StillMicro(s, x, y, z, rotation) ==
    [s EXCEPT !.microX = MicroSmooth(x, s.microX),
              !.microY = MicroSmooth(y, s.microY),
              !.microZ = MicroSmooth(z, s.microZ),
              !.microRotation = MicroSmooth(rotation, s.microRotation)]

\* a faulty store: the filtered values are kept as the previous position
StorePrevious_filtered(s, x, y, z, t) ==
    [s EXCEPT !.previousX = s.microX, !.previousY = s.microY,
              !.previousZ = s.microZ, !.previousTimestamp = t]

\* "Store for next frame"
StorePrevious(s, x, y, z, t) ==
    [s EXCEPT !.previousX = x, !.previousY = y, !.previousZ = z,
              !.previousTimestamp = t]

\* filter(x, y, z, rotation) called when performance.now() = t:
\* the fields after the call (s), the returned values (out) and the divisor
\* of the velocity computation
ExponentialSmoothing3D_filter(s, x, y, z, rotation, t) ==
    IF s.isFirstFrame
    THEN [s |-> FirstFrame(s, x, y, z, rotation, t),
          out |-> <<x, y, z, rotation>>,
          divisor |-> "none"]
    ELSE
      LET jd2  == JumpDistanceSq(s, x, y, z)
          vu   == UpdateVelocity(s, jd2, t)
          s1   == [s EXCEPT !.velocityMagnitudeSq = vu.velocityMagnitudeSq]
          tele == ShouldTeleport(jd2, s.teleportThreshold)
          s2   == IF tele
                  THEN [SnapMicro(s1, x, y, z, rotation) EXCEPT !.lastTeleportTime = t]
                  ELSE IF IsMoving(s1.velocityMagnitudeSq)
                       THEN SnapMicro(s1, x, y, z, rotation)
                       ELSE StillMicro(s1, x, y, z, rotation)
          final == IF tele \/ IsMoving(s1.velocityMagnitudeSq)
                   THEN <<x, y, z, rotation>>
                   ELSE <<s2.microX, s2.microY, s2.microZ, s2.microRotation>>
      IN  [s |-> StorePrevious(s2, x, y, z, t),
           out |-> final,
           divisor |-> vu.divisor]

ExponentialSmoothing3D_reset(s, x, y, z, rotation) ==
    [s EXCEPT !.previousX = x, !.previousY = y, !.previousZ = z,
              !.microX = x, !.microY = y, !.microZ = z, !.microRotation = rotation,
              !.velocityMagnitudeSq = Zero,
              !.previousTimestamp = 0,
              !.isFirstFrame = TRUE]

ExponentialSmoothing3D_setTeleportThreshold(s, threshold) ==
    [s EXCEPT !.teleportThreshold = threshold]

----------------------------------------------------------------------------
(* Inputs                                                                  *)

Pt(x, y, z, rotation) == <<R(x), R(y), R(z), R(rotation)>>

\* Anchors (x, y, z, rotation).  From (0,0,0): (30,0,0) is near, (150,0,0)
\* is at distance 150 exactly (the default threshold) and (150,0,8) at 150.2
\* (just above it); (150,0,8) is at distance 120.3 from (30,0,0).
\* (30,0,0,1) is the micro value one still update from (0,0,0,0) towards
\* (150,0,0,5) leaves.
Inputs3D == {Pt(0, 0, 0, 0), Pt(30, 0, 0, 1), Pt(150, 0, 0, 5), Pt(150, 0, 8, -1)}

\* Milliseconds between two readings of performance.now(): the same reading
\* again, 200 ms (30 px in 200 ms is 150 px/s) and 10 s (150 px in 10 s is
\* exactly 15 px/s).
Deltas == {0, 200, 10000}

\* Arguments of setTeleportThreshold
Thresholds == {R(125), R(TeleportThresholdDefault)}

\* Scalar measurements and reset values
Measurements == {R(0), R(10), R(-4)}

\* (processNoise, measurementNoise) of a KalmanFilter
KalmanParams == {<<Zero, One>>, <<Zero, <<1, 2>>>>, <<One, One>>}

\* alpha of a scalar ExponentialSmoothing: the default 0.7, and 1
Alphas == {<<7, 10>>, One}

InitialValues == {R(0), R(10)}

Classes ==
    {"KalmanFilter", "ExponentialSmoothing",
     "ExponentialSmoothing3D_utils", "ExponentialSmoothing3D"}

----------------------------------------------------------------------------
(* The state machine                                                       *)

NoCall == [op |-> "new", in |-> <<>>, out |-> <<>>, pre |-> <<>>,
           divisor |-> "none", prior |-> [op |-> "none", in |-> <<>>],
           repeats |-> 0]

\* the record of a call that follows the call recorded in last
Call(op, in, pre, out, divisor) ==
    [op |-> op, in |-> in, out |-> out, pre |-> pre, divisor |-> divisor,
     prior |-> [op |-> last.op, in |-> last.in],
     repeats |-> IF op = "filter" /\ last.op = "filter" /\ last.in = in
                 THEN last.repeats + 1 ELSE 0]

Init ==
    /\ cls \in Classes
    /\ obj \in
         CASE cls = "KalmanFilter" ->
                {KalmanFilter_new(qr[1], qr[2], v) : qr \in KalmanParams, v \in InitialValues}
           [] cls = "ExponentialSmoothing" ->
                {ExponentialSmoothing_new(a, v) : a \in Alphas, v \in InitialValues}
           [] cls = "ExponentialSmoothing3D_utils" ->
                {ExponentialSmoothing3D_utils_new(<<4, 5>>)}
           [] cls = "ExponentialSmoothing3D" ->
                {ExponentialSmoothing3D_new}
    /\ now = 1
    /\ calls = 0
    /\ last = NoCall

KalmanFilterFilter ==
    /\ cls = "KalmanFilter" /\ calls < MaxScalarCalls
    /\ \E m \in Measurements :
         LET s == KalmanFilter_filter(obj, m)
         IN  /\ obj' = s
             /\ last' = Call("filter", <<m>>, obj, <<s.x>>, "none")
    /\ calls' = calls + 1
    /\ UNCHANGED <<cls, now>>

KalmanFilterReset ==
    /\ cls = "KalmanFilter" /\ calls < MaxScalarCalls
    /\ \E v \in Measurements :
         /\ obj' = KalmanFilter_reset(obj, v)
         /\ last' = Call("reset", <<v>>, obj, <<>>, "none")
    /\ calls' = calls + 1
    /\ UNCHANGED <<cls, now>>

ExponentialSmoothingFilter ==
    /\ cls = "ExponentialSmoothing" /\ calls < MaxScalarCalls
    /\ \E m \in Measurements :
         LET s == ExponentialSmoothing_filter(obj, m)
         IN  /\ obj' = s
             /\ last' = Call("filter", <<m>>, obj, <<s.value>>, "none")
    /\ calls' = calls + 1
    /\ UNCHANGED <<cls, now>>

ExponentialSmoothingReset ==
    /\ cls = "ExponentialSmoothing" /\ calls < MaxScalarCalls
    /\ \E v \in Measurements :
         /\ obj' = ExponentialSmoothing_reset(obj, v)
         /\ last' = Call("reset", <<v>>, obj, <<>>, "none")
    /\ calls' = calls + 1
    /\ UNCHANGED <<cls, now>>

UtilsFilter3D ==
    /\ cls = "ExponentialSmoothing3D_utils" /\ calls < MaxScalarCalls
    /\ \E i \in Inputs3D :
         LET s == ExponentialSmoothing3D_utils_filter(obj, i[1], i[2], i[3], i[4])
         IN  /\ obj' = s
             /\ last' = Call("filter", i, obj, ExponentialSmoothing3D_utils_out(s), "none")
    /\ calls' = calls + 1
    /\ UNCHANGED <<cls, now>>

UtilsReset3D ==
    /\ cls = "ExponentialSmoothing3D_utils" /\ calls < MaxScalarCalls
    /\ \E i \in Inputs3D :
         /\ obj' = ExponentialSmoothing3D_utils_reset(obj, i[1], i[2], i[3], i[4])
         /\ last' = Call("reset", i, obj, <<>>, "none")
    /\ calls' = calls + 1
    /\ UNCHANGED <<cls, now>>

\* filter reads performance.now(), which has advanced by d since the last reading
Filter3D ==
    /\ cls = "ExponentialSmoothing3D" /\ calls < MaxCalls
    /\ \E i \in Inputs3D, d \in Deltas :
         LET f == ExponentialSmoothing3D_filter(obj, i[1], i[2], i[3], i[4], now + d)
         IN  /\ now' = now + d
             /\ obj' = f.s
             /\ last' = Call("filter", i, obj, f.out, f.divisor)
    /\ calls' = calls + 1
    /\ UNCHANGED cls

Reset3D ==
    /\ cls = "ExponentialSmoothing3D" /\ calls < MaxCalls
    /\ \E i \in Inputs3D :
         /\ obj' = ExponentialSmoothing3D_reset(obj, i[1], i[2], i[3], i[4])
         /\ last' = Call("reset", i, obj, <<>>, "none")
    /\ calls' = calls + 1
    /\ UNCHANGED <<cls, now>>

SetTeleportThreshold ==
    /\ cls = "ExponentialSmoothing3D" /\ calls < MaxCalls
    /\ \E th \in Thresholds :
         /\ obj' = ExponentialSmoothing3D_setTeleportThreshold(obj, th)
         /\ last' = Call("setTeleportThreshold", <<th>>, obj, <<>>, "none")
    /\ calls' = calls + 1
    /\ UNCHANGED <<cls, now>>

Next ==
    \/ KalmanFilterFilter
    \/ KalmanFilterReset
    \/ ExponentialSmoothingFilter
    \/ ExponentialSmoothingReset
    \/ UtilsFilter3D
    \/ UtilsReset3D
    \/ Filter3D
    \/ Reset3D
    \/ SetTeleportThreshold

Spec == Init /\ [][Next]_vars

----------------------------------------------------------------------------
(* Vocabulary of the properties.  They speak of the last call (last), the  *)
(* fields before it (last.pre) and the fields after it (obj); now is the   *)
(* clock reading the last filter call made.                                *)

TeleportAware == cls = "ExponentialSmoothing3D"
Utils3D == cls = "ExponentialSmoothing3D_utils"

Filtered == last.op = "filter"

\* the micro reference of a teleport-aware smoother
Micro(s) == <<s.microX, s.microY, s.microZ, s.microRotation>>

\* squared distance between the positions of two anchors
DistSq(a, b) ==
    LET dx == RSub(a[1], b[1])
        dy == RSub(a[2], b[2])
        dz == RSub(a[3], b[3])
    IN  RAdd(RAdd(RMul(dx, dx), RMul(dy, dy)), RMul(dz, dz))

\* the last call was a filter call on a teleport-aware smoother that had
\* already seen an observation
NonFirstFilter == TeleportAware /\ Filtered /\ ~last.pre.isFirstFrame

\* the raw position of the last call lies further from the previous raw
\* position than the teleport threshold
Jumped ==
    RLt(RMul(last.pre.teleportThreshold, last.pre.teleportThreshold),
        DistSq(last.in, <<last.pre.previousX, last.pre.previousY, last.pre.previousZ>>))

\* ... lies nearer than the teleport threshold
JumpBelowThreshold ==
    RLt(DistSq(last.in, <<last.pre.previousX, last.pre.previousY, last.pre.previousZ>>),
        RMul(last.pre.teleportThreshold, last.pre.teleportThreshold))

\* ... and no nearer than four fifths of it
JumpNearThreshold ==
    RLe(RMul(<<16, 25>>, RMul(last.pre.teleportThreshold, last.pre.teleportThreshold)),
        DistSq(last.in, <<last.pre.previousX, last.pre.previousY, last.pre.previousZ>>))

\* milliseconds between the last filter call and the update before it
ElapsedMs == now - last.pre.previousTimestamp

\* the square of distance moved / elapsed seconds, for ElapsedMs > 0
InstantVelocitySq ==
    RDiv(DistSq(last.in, <<last.pre.previousX, last.pre.previousY, last.pre.previousZ>>),
         RMul(<<ElapsedMs, 1000>>, <<ElapsedMs, 1000>>))

\* channel c of v is 0.2 * raw + 0.8 * (micro before the call)
IsBlend(v, c) ==
    RMul(R(5), v[c]) = RAdd(last.in[c], RMul(R(4), Micro(last.pre)[c]))

----------------------------------------------------------------------------
(* C1. First-observation identity: the first filter call on a vector       *)
(* smoother that has just been created returns its input (x, y, z, r)      *)
(* unchanged in all four channels.                                         *)
(* The four-scalar-filter class of utils/kalmanFilter.ts, the one          *)
(* getSmoothingFilter creates per hand, starts every channel at 0 and      *)
(* returns alpha * input.                                                  *)
C1_FirstObservationIdentity ==
    (TeleportAware \/ Utils3D) /\ Filtered /\ calls = 1 => last.out = last.in

\* C1 for the teleport-aware class alone, where it holds (also after reset)
C1_TeleportAwareFirstFrame ==
    TeleportAware /\ Filtered /\ last.pre.isFirstFrame
        => last.out = last.in /\ Micro(obj) = last.in

(* C2. Teleport: a non-first update whose raw position is further than the *)
(* teleport threshold (default 150) from the previous raw position returns *)
(* the raw values in all four channels.                                    *)
(* The utils class has no teleport test: it blends every update.           *)
C2_TeleportReturnsRaw ==
    /\ TeleportAware \/ Utils3D
    /\ Filtered /\ last.prior.op = "filter"
    /\ RLt(R(TeleportThresholdDefault * TeleportThresholdDefault),
           DistSq(last.in, last.prior.in))
    => last.out = last.in

\* C2 for the teleport-aware class alone, where it holds: the teleport
\* returns the raw values and moves the micro reference there ...
C2_TeleportAwareSnap ==
    NonFirstFilter /\ Jumped
        => /\ last.out = last.in
           /\ Micro(obj) = last.in
           /\ obj.lastTeleportTime = now

\* ... and an update that repeats the raw input the micro reference already
\* holds returns it again
C2_TeleportAwareNoCatchUp ==
    /\ NonFirstFilter
    /\ Micro(last.pre) = last.in
    /\ <<last.pre.previousX, last.pre.previousY, last.pre.previousZ>>
         = <<last.in[1], last.in[2], last.in[3]>>
    => last.out = last.in /\ Micro(obj) = last.in

C4_MovingReturnsRaw ==
    /\ NonFirstFilter /\ ~Jumped
    /\ ElapsedMs > 0
    /\ RLt(R(MovingThreshold * MovingThreshold), InstantVelocitySq)
    => last.out = last.in /\ Micro(obj) = last.in

\* 30 px in 200 ms (150 px/s) while the micro reference lags behind
C4_Witness ==
    /\ NonFirstFilter /\ ~Jumped
    /\ ElapsedMs > 0
    /\ RLt(R(MovingThreshold * MovingThreshold), InstantVelocitySq)
    /\ InstantVelocitySq = R(TeleportThresholdDefault * TeleportThresholdDefault)
    /\ Micro(last.pre) # last.in
    /\ Micro(obj) = last.in

(* C5. Still branch: on a non-first, non-teleport update whose velocity is *)
(* at or below 15, every channel of the micro reference becomes            *)
(* 0.2 * raw + 0.8 * micro and the output is the new micro reference.      *)
C5_StillBlendsEachChannel ==
    /\ NonFirstFilter /\ ~Jumped
    /\ RLe(obj.velocityMagnitudeSq, R(MovingThreshold * MovingThreshold))
    => /\ \A c \in 1..4 : IsBlend(Micro(obj), c)
       /\ last.out = Micro(obj)

\* 150 px in 10 s: exactly 15 px/s, at exactly the teleport threshold
C5_Witness ==
    /\ NonFirstFilter /\ ~Jumped
    /\ ElapsedMs > 0
    /\ InstantVelocitySq = R(MovingThreshold * MovingThreshold)
    /\ obj.velocityMagnitudeSq = R(MovingThreshold * MovingThreshold)
    /\ last.out # last.in
    /\ last.out = Micro(obj)

(* C6. Invalid timestamp, velocity retained: on a non-first update with an *)
(* elapsed time that is not positive nothing is divided by the elapsed     *)
(* time and the stored velocity estimate is the one before the update.     *)
(* (performance.now() never decreases, so the elapsed time is 0 here.)     *)
C6_VelocityRetained ==
    /\ NonFirstFilter /\ ElapsedMs <= 0
         => /\ last.divisor = "none"
            /\ obj.velocityMagnitudeSq = last.pre.velocityMagnitudeSq
    /\ TeleportAware /\ Filtered /\ last.divisor # "none"
         => RLt(Zero, last.divisor)

\* a duplicate timestamp after a fast move to another position: the
\* velocity kept is not the distance of this update over any time
C6_Witness ==
    /\ NonFirstFilter /\ ElapsedMs <= 0
    /\ last.in # last.prior.in
    /\ RLt(R(MovingThreshold * MovingThreshold), last.pre.velocityMagnitudeSq)
    /\ obj.velocityMagnitudeSq = last.pre.velocityMagnitudeSq

----------------------------------------------------------------------------
(* Repeated input: the last call is a filter call with the input of the    *)
(* filter call just before it.                                             *)

Repeated == Filtered /\ last.repeats >= 1

\* the smoothed value of each channel, for the three exponential classes
Smoothed(s) ==
    CASE cls = "ExponentialSmoothing3D" -> Micro(s)
      [] cls = "ExponentialSmoothing3D_utils" -> ExponentialSmoothing3D_utils_out(s)
      [] cls = "ExponentialSmoothing" -> <<s.value>>

Exponential ==
    cls \in {"ExponentialSmoothing3D", "ExponentialSmoothing3D_utils",
             "ExponentialSmoothing"}

\* the calls a behaviour of the class may make
CallBound == IF TeleportAware THEN MaxCalls ELSE MaxScalarCalls

\* 1 - alpha of channel c: the part of the gap a smoothing update leaves
Retention(s, c) ==
    CASE cls = "ExponentialSmoothing3D" -> RSub(One, microAlpha)
      [] cls = "ExponentialSmoothing3D_utils" ->
           RSub(One, <<s.xFilter.alpha, s.yFilter.alpha,
                       s.zFilter.alpha, s.rotationFilter.alpha>>[c])
      [] cls = "ExponentialSmoothing" -> RSub(One, s.alpha)

\* the last update of a teleport-aware smoother took the still branch
TookStillBranch ==
    /\ NonFirstFilter /\ ~Jumped
    /\ RLe(obj.velocityMagnitudeSq, R(MovingThreshold * MovingThreshold))

----------------------------------------------------------------------------
Kalman == cls = "KalmanFilter"

(* C9, as claimed. Scalar Kalman idempotence under zero process noise:     *)
(* with q = 0, feeding the same measurement again leaves the estimate      *)
(* unchanged on every update after the first one.                          *)
C9_KalmanIdempotent ==
    Kalman /\ obj.q = Zero /\ Repeated => obj.x = last.pre.x

(* C9, amended. With q = 0, feeding the same measurement again leaves the  *)
(* estimate unchanged exactly when the estimate already equals the         *)
(* measurement; an estimate that differs from it moves strictly towards it *)
(* at every update.                                                        *)
C9_KalmanIdempotentOnceConverged ==
    Kalman /\ obj.q = Zero /\ Repeated
        => IF last.pre.x = last.in[1]
           THEN obj.x = last.pre.x
           ELSE RStrictlyBetween(obj.x, last.pre.x, last.in[1])

\* the estimate equals a nonzero measurement and stays there
C9_Witness ==
    /\ Kalman /\ obj.q = Zero /\ Repeated
    /\ last.pre.x = last.in[1]
    /\ last.in[1] # Zero
    /\ obj.x = last.in[1]
    /\ obj.p # last.pre.p

----------------------------------------------------------------------------
AfterReset == Filtered /\ last.prior.op = "reset"

C23_PreviousIsRawInput ==
    TeleportAware /\ Filtered =>
        /\ <<obj.previousX, obj.previousY, obj.previousZ>>
             = <<last.in[1], last.in[2], last.in[3]>>
        /\ obj.previousTimestamp = now

\* a still update returns a blend that differs from the raw input and
\* stores the raw input
C23_Witness ==
    /\ TookStillBranch
    /\ last.out[1] # last.in[1]
    /\ obj.previousX = last.in[1]
    /\ obj.previousX # obj.microX
    /\ obj.previousTimestamp = now /\ now > 1

(* C24. Output equals the micro reference: after every filter call of the  *)
(* teleport-aware smoother, in every branch, the returned (x, y, z,        *)
(* rotation) is the micro reference the call leaves.                       *)
C24_OutputIsMicro ==
    TeleportAware /\ Filtered => last.out = Micro(obj)

\* a teleport returns the raw input, away from the micro reference it found
C24_Witness ==
    /\ NonFirstFilter /\ Jumped
    /\ Micro(last.pre) # last.in
    /\ last.out = last.in
    /\ Micro(obj) = last.out

\* the covariance after the prediction step of the last filter call
PredictedCovariance == RAdd(last.pre.p, last.pre.q)

----------------------------------------------------------------------------
(* The HandTracking component (src/src/components/HandTracking.tsx): the   *)
(* registry of one smoother per handedness label, the ring anchor of one   *)
(* detected hand, and the detection loop with the three effects that start *)
(* and tear down the detector, the camera and the loop.                    *)
(*                                                                         *)
(* A hand is [handedness, keypoints], keypoints a function from indices to *)
(* keypoints (only the indices 13 and 14 are read), a keypoint a record    *)
(* [x, y] or [x, y, z].  An index outside DOMAIN keypoints is an entry the *)
(* array does not have.                                                    *)
(* Angles are kept in units of pi, so that Math.atan2 has exact values on  *)
(* the axes and the diagonals; the smoothers are linear, so the unit does  *)
(* not change what they do.  canvas.getContext('2d') never returns null    *)
(* here (no other context type is requested), so line 243 is not a step.   *)

\* kp.z || 0
ZOrZero(kp) == IF "z" \in DOMAIN kp THEN kp.z ELSE Zero

\* Math.atan2(dy, dx) in units of pi, for directions on an axis or a diagonal
Atan2(dy, dx) ==
    CASE dy[1] = 0 /\ dx[1] >= 0 -> Zero
      [] dy[1] = 0 /\ dx[1] < 0  -> One
      [] dx[1] = 0 /\ dy[1] > 0  -> <<1, 2>>
      [] dx[1] = 0 /\ dy[1] < 0  -> <<-1, 2>>
      [] dx[1] > 0 /\ dy = dx        -> <<1, 4>>
      [] dx[1] > 0 /\ dy = RNeg(dx)  -> <<-1, 4>>
      [] dx[1] < 0 /\ dy = RNeg(dx)  -> <<3, 4>>
      [] dx[1] < 0 /\ dy = dx        -> <<-3, 4>>

\* the weights 0.2 and 0.82 of lines 156-158
BaseWeight == <<1, 5>>
JointWeight == <<41, 50>>

\* kp13.c * 0.2 + kp14.c * 0.82
RingBlend(base, joint) ==
    RAdd(RMul(base, BaseWeight), RMul(joint, JointWeight))

\* ringX, ringY, ringZ and angle of a hand that has both keypoints
RingAnchor(hand) ==
    LET kp13 == hand.keypoints[13]
        kp14 == hand.keypoints[14]
    IN  <<RingBlend(kp13.x, kp14.x),
          RingBlend(kp13.y, kp14.y),
          RingBlend(ZOrZero(kp13), ZOrZero(kp14)),
          Atan2(RSub(kp14.y, kp13.y), RSub(kp14.x, kp13.x))>>

\* a registry is [filters, created]: the Map of smoothingFiltersRef, each
\* entry [id, s] an instance (id: its construction number) and its fields,
\* and the number of smoothers constructed so far
EmptyRegistry == [filters |-> <<>>, created |-> 0]

\* a registry that constructs a new smoother on every call
getSmoothingFilter_alwaysNew(reg, handedness) ==
    [filters |-> [k \in DOMAIN reg.filters \cup {handedness} |->
                    IF k = handedness
                    THEN [id |-> reg.created + 1,
                          s |-> ExponentialSmoothing3D_utils_new(<<4, 5>>)]
                    ELSE reg.filters[k]],
     created |-> reg.created + 1]

\* getSmoothingFilter(handedness): the registry after the call; the smoother
\* it returns is filters[handedness]
getSmoothingFilter(reg, handedness) ==
    IF handedness \notin DOMAIN reg.filters
    THEN [filters |-> [k \in DOMAIN reg.filters \cup {handedness} |->
                         IF k = handedness
                         THEN [id |-> reg.created + 1,
                               s |-> ExponentialSmoothing3D_utils_new(<<4, 5>>)]
                         ELSE reg.filters[k]],
          created |-> reg.created + 1]
    ELSE reg

\* one smoother object shared by every key
FilterInPlace_aliased(filters, handedness, a) ==
    [k \in DOMAIN filters |->
        [filters[k] EXCEPT !.s = ExponentialSmoothing3D_utils_filter(
                                     filters[handedness].s, a[1], a[2], a[3], a[4])]]

\* filter.filter(ringX, ringY, ringZ, angle) on the smoother of handedness:
\* the object held by the Map is mutated in place
FilterInPlace(filters, handedness, a) ==
    [filters EXCEPT ![handedness].s =
        ExponentialSmoothing3D_utils_filter(@, a[1], a[2], a[3], a[4])]

\* hands.map(...) from hand i on.  Reading kp13.x or kp14.x of an absent
\* keypoint throws a TypeError, which ends the map: the smoothers updated
\* for the hands before i stay updated and no array is returned.
RECURSIVE MapHands(_, _, _)
MapHands(reg, hands, i) ==
    IF i > Len(hands)
    THEN [filters |-> reg.filters, created |-> reg.created,
          positions |-> <<>>, threw |-> FALSE, processed |-> <<>>]
    ELSE IF 13 \notin DOMAIN hands[i].keypoints \/ 14 \notin DOMAIN hands[i].keypoints
    THEN [filters |-> reg.filters, created |-> reg.created,
          positions |-> <<>>, threw |-> TRUE, processed |-> <<>>]
    ELSE LET handedness == hands[i].handedness
             a    == RingAnchor(hands[i])
             reg1 == getSmoothingFilter(reg, handedness)
             fs   == FilterInPlace(reg1.filters, handedness, a)
             out  == ExponentialSmoothing3D_utils_out(fs[handedness].s)
             rest == MapHands([filters |-> fs, created |-> reg1.created], hands, i + 1)
         IN  [rest EXCEPT
                !.positions = <<[x |-> out[1], y |-> out[2], z |-> out[3],
                                 rotation |-> out[4],
                                 handedness |-> handedness]>> \o @,
                !.processed = <<handedness>> \o @]

\* calculateRingPositions(hands): the registry afterwards, the positions it
\* returns unless it threw, and the labels of the hands it filtered
calculateRingPositions(reg, hands) == MapHands(reg, hands, 1)

----------------------------------------------------------------------------
(* The component instance and its effects.                                 *)
(*                                                                         *)
(* Fields of the instance (obj when cls = "HandTracking"):                 *)
(*   registry           smoothingFiltersRef.current                        *)
(*   ringPositions, detector, isLoading      React state                   *)
(*   mounted            the effects are set up and not yet cleaned up      *)
(*   setups             how many times the effects have been set up        *)
(*   videoRef           videoRef.current and canvasRef.current are set     *)
(*   videoReady         video.readyState === 4                             *)
(*   initsPending       initializeDetector calls awaiting createDetector   *)
(*   detectors, disposed    detectors created (1..detectors), disposed     *)
(*   cameraPending      setupCamera calls awaiting getUserMedia            *)
(*   streams, srcObject, stopped   streams acquired (1..streams), the one  *)
(*                      attached to the video (0: none), those stopped     *)
(*   animationFrameRef  animationFrameRef.current (0: null)                *)
(*   frames, scheduled  handles given out by requestAnimationFrame, and    *)
(*                      those whose callback has neither run nor been      *)
(*                      cancelled                                          *)
(*   inFlight           detectHands calls suspended at estimateHands       *)
(* The detector is 0 for null, else the number of the detector.            *)

HandTracking_new ==
    [registry |-> EmptyRegistry, ringPositions |-> <<>>,
     detector |-> 0, isLoading |-> TRUE,
     mounted |-> FALSE, setups |-> 0, videoRef |-> TRUE, videoReady |-> FALSE,
     initsPending |-> 0, detectors |-> 0, disposed |-> {},
     cameraPending |-> 0, streams |-> 0, srcObject |-> 0, stopped |-> {},
     animationFrameRef |-> 0, frames |-> 0, scheduled |-> {}, inFlight |-> 0]

\* animationFrameRef.current = requestAnimationFrame(detectHands)
RequestAnimationFrame(c) ==
    [c EXCEPT !.frames = @ + 1,
              !.animationFrameRef = c.frames + 1,
              !.scheduled = @ \cup {c.frames + 1}]

\* detectHands up to its await: without a ready video it only reschedules
\* itself; otherwise it draws the frame and suspends at estimateHands.  The
\* detector of its closure is never null, since detectHands is first called
\* only with a detector.
DetectHandsBegin(c) ==
    IF ~c.videoRef \/ ~c.videoReady
    THEN RequestAnimationFrame(c)
    ELSE [c EXCEPT !.inFlight = @ + 1]

\* line 348, reached after the try block and after the catch block alike
RescheduleTick(c) == RequestAnimationFrame(c)

\* a loop that stops after a failed detection
DetectHandsRejected_halts(c) == [c EXCEPT !.inFlight = @ - 1]

\* detectHands resumed by a rejected estimateHands: the catch block logs
DetectHandsRejected(c) == RescheduleTick([c EXCEPT !.inFlight = @ - 1])

\* setRingPositions(v): a state update of an unmounted component is dropped
SetRingPositions(c, v) == IF c.mounted THEN [c EXCEPT !.ringPositions = v] ELSE c

\* detectHands resumed with the detector's hands
DetectHandsResolved(c, hands) ==
    LET c1 == [c EXCEPT !.inFlight = @ - 1]
    IN  IF Len(hands) > 0
        THEN LET m  == calculateRingPositions(c1.registry, hands)
                 c2 == [c1 EXCEPT !.registry =
                           [filters |-> m.filters, created |-> m.created]]
             IN  RescheduleTick(IF m.threw THEN c2
                                ELSE SetRingPositions(c2, m.positions))
        ELSE RescheduleTick(SetRingPositions(c1, <<>>))

\* the detector effect: initializeDetector() runs up to its first await
SetupDetectorEffect(c) ==
    [c EXCEPT !.isLoading = TRUE, !.initsPending = @ + 1]

\* the cleanup of the detector effect.  The effect has no dependencies, so
\* its cleanup is the closure of the first render, whose detector is null.
CleanupDetectorEffect(c) ==
    LET detector == 0
    IN  IF detector # 0 THEN [c EXCEPT !.disposed = @ \cup {detector}] ELSE c

\* the camera effect: setupCamera() runs up to getUserMedia
SetupCameraEffect(c) ==
    IF c.videoRef THEN [c EXCEPT !.cameraPending = @ + 1] ELSE c

\* the cleanup of the camera effect
CleanupCameraEffect(c) ==
    IF c.videoRef /\ c.srcObject # 0
    THEN [c EXCEPT !.stopped = @ \cup {c.srcObject}]
    ELSE c

\* the detection-loop effect
SetupLoopEffect(c) ==
    IF c.detector # 0 /\ ~c.isLoading THEN DetectHandsBegin(c) ELSE c

\* the cleanup of the detection-loop effect: cancelAnimationFrame of the
\* handle last stored, which does nothing when that callback already ran
CleanupLoopEffect(c) ==
    IF c.animationFrameRef # 0
    THEN [c EXCEPT !.scheduled = @ \ {c.animationFrameRef}]
    ELSE c

SetupEffects(c) ==
    SetupLoopEffect(SetupCameraEffect(SetupDetectorEffect(
        [c EXCEPT !.setups = @ + 1])))

CleanupEffects(c) ==
    CleanupLoopEffect(CleanupCameraEffect(CleanupDetectorEffect(c)))

\* the render that follows a state update: the detection-loop effect is
\* cleaned up and set up again when detector or isLoading changed
Rerender(old, c) ==
    IF c.detector # old.detector \/ c.isLoading # old.isLoading
    THEN SetupLoopEffect(CleanupLoopEffect(c))
    ELSE c

\* createDetector resolved: setDetector(handDetector); setIsLoading(false).
\* After the unmount the two updates are dropped and the detector is kept
\* by nothing.
InitializeDetectorResolved(c) ==
    LET c1 == [c EXCEPT !.initsPending = @ - 1, !.detectors = @ + 1]
    IN  IF c.mounted
        THEN Rerender(c, [c1 EXCEPT !.detector = c.detectors + 1,
                                    !.isLoading = FALSE])
        ELSE c1

\* tf.ready or createDetector rejected: setError(...); setIsLoading(false)
InitializeDetectorFailed(c) ==
    LET c1 == [c EXCEPT !.initsPending = @ - 1]
    IN  IF c.mounted THEN Rerender(c, [c1 EXCEPT !.isLoading = FALSE]) ELSE c1

\* getUserMedia resolved and the video started playing.  Without a video
\* element the assignment to srcObject throws and the stream stays open.
SetupCameraResolved(c) ==
    LET c1 == [c EXCEPT !.cameraPending = @ - 1, !.streams = @ + 1]
    IN  IF c.videoRef
        THEN [c1 EXCEPT !.srcObject = c.streams + 1, !.videoReady = TRUE]
        ELSE c1

----------------------------------------------------------------------------
(* The detection loop as a state machine.  One step is one task of the     *)
(* event loop: the mount or unmount of the component, the resolution of    *)
(* one awaited promise, or one animation-frame callback.                   *)

\* detection calls that complete in a behaviour
MaxTicks == 2

\* handles requestAnimationFrame gives out in a behaviour
MaxFrames == 4

Kp(x, y) == [x |-> R(x), y |-> R(y)]

KpZ(x, y, z) == [x |-> R(x), y |-> R(y), z |-> R(z)]

Hand(handedness, kp13, kp14) ==
    [handedness |-> handedness, keypoints |-> (13 :> kp13 @@ 14 :> kp14)]

\* a left hand whose two keypoints coincide and have no depth
LeftStill == Hand("Left", Kp(100, 100), Kp(100, 100))

LeftA == Hand("Left", KpZ(100, 200, 10), KpZ(150, 250, 20))

RightA == Hand("Right", Kp(300, 200), KpZ(300, 150, 5))

\* a right hand whose keypoints array ends before index 13
RightBad == [handedness |-> "Right", keypoints |-> <<>>]

\* what estimateHands resolves with (maxHands is 2)
Frames ==
    {<<>>, <<LeftA>>, <<LeftA, RightA>>, <<LeftStill, LeftA>>, <<RightBad, LeftA>>}

TrackingInit ==
    /\ cls = "HandTracking"
    /\ obj = HandTracking_new
    /\ now = 1
    /\ calls = 0
    /\ last = NoCall

\* the first commit: the three effects are set up; under React.StrictMode
\* (development) they are cleaned up and set up once more
Mount ==
    /\ cls = "HandTracking" /\ last.op = "new"
    /\ \E strict \in BOOLEAN :
         LET c1 == SetupEffects([obj EXCEPT !.mounted = TRUE])
         IN  /\ obj' = IF strict THEN SetupEffects(CleanupEffects(c1)) ELSE c1
             /\ last' = Call("mount", <<strict>>, obj, <<>>, "none")
    /\ UNCHANGED <<cls, now, calls>>

\* the component is removed: the three cleanups run.  React clears the refs
\* of a removed element; cleared says whether the cleanups already see that.
Unmount ==
    /\ cls = "HandTracking" /\ obj.mounted
    /\ \E cleared \in BOOLEAN :
         LET c1 == CleanupEffects([obj EXCEPT !.videoRef = ~cleared])
         IN  /\ obj' = [c1 EXCEPT !.mounted = FALSE, !.videoRef = FALSE]
             /\ last' = Call("unmount", <<cleared>>, obj, <<>>, "none")
    /\ UNCHANGED <<cls, now, calls>>

InitializeDetectorResolves ==
    /\ cls = "HandTracking" /\ obj.initsPending > 0 /\ obj.frames < MaxFrames
    /\ obj' = InitializeDetectorResolved(obj)
    /\ last' = Call("initializeDetector", <<"resolved">>, obj, <<>>, "none")
    /\ UNCHANGED <<cls, now, calls>>

InitializeDetectorFails ==
    /\ cls = "HandTracking" /\ obj.initsPending > 0 /\ obj.frames < MaxFrames
    /\ obj' = InitializeDetectorFailed(obj)
    /\ last' = Call("initializeDetector", <<"rejected">>, obj, <<>>, "none")
    /\ UNCHANGED <<cls, now, calls>>

SetupCameraResolves ==
    /\ cls = "HandTracking" /\ obj.cameraPending > 0
    /\ obj' = SetupCameraResolved(obj)
    /\ last' = Call("setupCamera", <<"resolved">>, obj, <<>>, "none")
    /\ UNCHANGED <<cls, now, calls>>

\* the browser runs the callback of a scheduled animation frame
AnimationFrame ==
    /\ cls = "HandTracking" /\ obj.frames < MaxFrames
    /\ \E f \in obj.scheduled :
         /\ obj' = DetectHandsBegin([obj EXCEPT !.scheduled = @ \ {f}])
         /\ last' = Call("animationFrame", <<f>>, obj, <<>>, "none")
    /\ UNCHANGED <<cls, now, calls>>

EstimateHandsResolves ==
    /\ cls = "HandTracking" /\ obj.inFlight > 0
    /\ calls < MaxTicks /\ obj.frames < MaxFrames
    /\ \E hands \in Frames :
         /\ obj' = DetectHandsResolved(obj, hands)
         /\ last' = Call("estimateHands", hands, obj, <<"resolved">>, "none")
    /\ calls' = calls + 1
    /\ UNCHANGED <<cls, now>>

EstimateHandsRejects ==
    /\ cls = "HandTracking" /\ obj.inFlight > 0
    /\ calls < MaxTicks /\ obj.frames < MaxFrames
    /\ obj' = DetectHandsRejected(obj)
    /\ last' = Call("estimateHands", <<>>, obj, <<"rejected">>, "none")
    /\ calls' = calls + 1
    /\ UNCHANGED <<cls, now>>

TrackingNext ==
    \/ Mount
    \/ Unmount
    \/ InitializeDetectorResolves
    \/ InitializeDetectorFails
    \/ SetupCameraResolves
    \/ AnimationFrame
    \/ EstimateHandsResolves
    \/ EstimateHandsRejects

TrackingSpec == TrackingInit /\ [][TrackingNext]_vars

----------------------------------------------------------------------------
(* Vocabulary of the properties of the component.  last is the last step,  *)
(* last.pre the instance before it and obj the instance after it.          *)

Tracking == cls = "HandTracking"

\* the last step resumed detectHands with the hands last.in
TickResolved ==
    Tracking /\ last.op = "estimateHands" /\ last.out = <<"resolved">>

\* the last step resumed detectHands with a rejected detection call
TickRejected ==
    Tracking /\ last.op = "estimateHands" /\ last.out = <<"rejected">>

FiltersBefore == last.pre.registry.filters
FiltersAfter == obj.registry.filters

\* the hand has the base point 13 and the joint point 14
HasPoints(hand) == {13, 14} \subseteq DOMAIN hand.keypoints

\* the hands of the frame that were reached: those before the first hand
\* that lacks a point
Reached(hands) ==
    {i \in DOMAIN hands : \A j \in 1..i : HasPoints(hands[j])}

\* the fields of the smoother of key k before the last step; a smoother
\* created by the step starts as a new one
SmootherBefore(k) ==
    IF k \in DOMAIN FiltersBefore
    THEN FiltersBefore[k].s
    ELSE ExponentialSmoothing3D_utils_new(<<4, 5>>)

\* the frames requestAnimationFrame has scheduled during the last step
NewFrames == (last.pre.frames + 1)..obj.frames

(* C11. Registry instance stability: a step never removes a key or puts    *)
(* another instance under it, the registry has constructed exactly one     *)
(* smoother per key it holds, and a key appears only in a frame that       *)
(* carries its label; frames without the label, without hands, or a failed *)
(* detection leave the entry in place.                                     *)
C11_RegistryStable ==
    Tracking /\ last.op # "new" =>
        /\ \A k \in DOMAIN FiltersBefore :
              /\ k \in DOMAIN FiltersAfter
              /\ FiltersAfter[k].id = FiltersBefore[k].id
        /\ obj.registry.created = Cardinality(DOMAIN FiltersAfter)
        /\ \A k \in DOMAIN FiltersAfter \ DOMAIN FiltersBefore :
              /\ TickResolved
              /\ \E i \in DOMAIN last.in : last.in[i].handedness = k

\* the smoother of "Left" was created by the first frame and is still the
\* registry's entry after a second frame without hands
C11_Witness ==
    /\ TickResolved
    /\ calls = 2
    /\ last.in = <<>>
    /\ "Left" \in DOMAIN FiltersBefore
    /\ FiltersAfter["Left"].id = 1

(* C12. Registry isolation: a frame leaves every field of the smoother of  *)
(* a key unchanged unless it filters a hand with that label.               *)
C12_RegistryIsolation ==
    TickResolved =>
        \A k \in DOMAIN FiltersBefore :
            (\A i \in Reached(last.in) : last.in[i].handedness # k)
                => FiltersAfter[k] = FiltersBefore[k]

\* the registry holds both keys and a frame with only a left hand updates
\* the smoother of "Left"
C12_Witness ==
    /\ TickResolved
    /\ last.in = <<LeftA>>
    /\ "Right" \in DOMAIN FiltersBefore
    /\ FiltersAfter["Left"] # FiltersBefore["Left"]
    /\ FiltersAfter["Right"] = FiltersBefore["Right"]

\* the smoother s is the smoother s0 after one filter call with the anchor
\* of a reached hand of the frame that carries the label k
FilteredOnce(s, s0, k) ==
    \E i \in Reached(last.in) :
        /\ last.in[i].handedness = k
        /\ LET a == RingAnchor(last.in[i])
           IN  s = ExponentialSmoothing3D_utils_filter(s0, a[1], a[2], a[3], a[4])

(* C13. One smoother per entity: a frame mutates every smoother at most    *)
(* once, so after the frame a smoother either has the fields it had before *)
(* or those fields after a single filter call with the anchor of one hand  *)
(* of the frame, also when two hands carry the same handedness label.      *)
C13_AtMostOneUpdatePerFrame ==
    TickResolved =>
        \A k \in DOMAIN FiltersAfter :
            \/ FiltersAfter[k].s = SmootherBefore(k)
            \/ FilteredOnce(FiltersAfter[k].s, SmootherBefore(k), k)

\* the input of the one filter call that took the smoother of key k from
\* its fields before the step to its fields after it, channel c of x, y, z:
\* value' = alpha*input + (1 - alpha)*value solved for input
FedInput(k, c) ==
    LET before == ExponentialSmoothing3D_utils_out(SmootherBefore(k))[c]
        after  == ExponentialSmoothing3D_utils_out(FiltersAfter[k].s)[c]
        alpha  == FiltersAfter[k].s.xFilter.alpha
    IN  RDiv(RSub(after, RMul(RSub(One, alpha), before)), alpha)

\* the label of hand i is carried by no other hand of the frame
OnlyOfItsLabel(hands, i) ==
    \A j \in DOMAIN hands : hands[j].handedness = hands[i].handedness => j = i

\* coordinate c (x, y, z) of a keypoint, with 0 for a missing z
Coordinate(kp, c) == IF c = 1 THEN kp.x ELSE IF c = 2 THEN kp.y ELSE ZOrZero(kp)

(* C14. Anchor blend: the anchor fed to the smoother of a hand is          *)
(* base*w + joint*(1-w) in x, y and z (0 for a missing z), the two weights *)
(* summing to 1: in every coordinate it lies between base and joint, and   *)
(* it is that value when the two coincide.                                 *)
C14_AnchorIsConvexBlend ==
    TickResolved =>
        \A i \in Reached(last.in) :
            OnlyOfItsLabel(last.in, i) =>
                \A c \in 1..3 :
                    LET base  == Coordinate(last.in[i].keypoints[13], c)
                        joint == Coordinate(last.in[i].keypoints[14], c)
                        fed   == FedInput(last.in[i].handedness, c)
                    IN  /\ RBetween(fed, base, joint)
                        /\ base = joint => fed = base

(* C15. Missing landmarks are skipped locally: in a frame every hand that  *)
(* has the base and the joint point gets its smoother updated with its     *)
(* anchor and its placement emitted, whatever the other hands of the frame *)
(* lack, and a hand that lacks a point gets no placement.                  *)
C15_MissingLandmarksSkippedLocally ==
    TickResolved /\ last.pre.mounted /\ last.in # <<>> =>
        /\ \A i \in DOMAIN last.in :
              HasPoints(last.in[i]) /\ OnlyOfItsLabel(last.in, i) =>
                 LET k == last.in[i].handedness
                     a == RingAnchor(last.in[i])
                 IN  /\ k \in DOMAIN FiltersAfter
                     /\ FiltersAfter[k].s = ExponentialSmoothing3D_utils_filter(
                                               SmootherBefore(k), a[1], a[2], a[3], a[4])
                     /\ \E p \in DOMAIN obj.ringPositions :
                           /\ obj.ringPositions[p].handedness = k
                           /\ obj.ringPositions[p].x = FiltersAfter[k].s.xFilter.value
        /\ Len(obj.ringPositions)
             = Cardinality({i \in DOMAIN last.in : HasPoints(last.in[i])})

(* C16. Detector failure equals zero observations: after a tick whose      *)
(* detection call rejected, the placements exposed to the renderer are     *)
(* empty and no smoother has been modified.                                *)
C16_FailureIsEmptyFrame ==
    TickRejected /\ last.pre.mounted =>
        /\ obj.ringPositions = <<>>
        /\ obj.registry = last.pre.registry

(* C17. The tick loop survives detector failures: a tick of a mounted      *)
(* component whose detection call rejected ends by scheduling the next     *)
(* tick, whatever happened in the ticks before it.                         *)
C17_FailureSchedulesNextTick ==
    TickRejected /\ last.pre.mounted =>
        /\ obj.frames = last.pre.frames + 1
        /\ obj.frames \in obj.scheduled
        /\ obj.animationFrameRef = obj.frames

\* the second tick of a mounted component fails and the loop goes on with
\* exactly one scheduled tick
C17_Witness ==
    /\ TickRejected /\ obj.mounted
    /\ calls = 2
    /\ last.pre.ringPositions = <<>> /\ last.pre.registry = EmptyRegistry
    /\ obj.scheduled = {obj.frames}
    /\ obj.inFlight = 0

\* ticks scheduled or suspended at the detection call
TicksAlive(c) == Cardinality(c.scheduled) + c.inFlight

(* C18. No overlapping ticks: at every moment at most one tick is          *)
(* scheduled or in flight, also after the detection-loop effect has been   *)
(* cleaned up and set up again for a change of detector or isLoading.      *)
C18_AtMostOneTick == Tracking => TicksAlive(obj) <= 1

\* the same for a component whose effects are set up once, as they are
\* outside React.StrictMode: there the detector changes once, before any
\* tick has started
C18_AtMostOneTickSingleSetup ==
    Tracking /\ obj.setups <= 1 => TicksAlive(obj) <= 1

(* C19. Teardown stops the loop: once the cleanup of the detection-loop    *)
(* effect has run for the unmount, no step schedules an animation frame or *)
(* starts a detection call, also when a detection call that was suspended  *)
(* at the unmount resolves.                                                *)
C19_NoTickAfterTeardown ==
    Tracking /\ last.op # "new" /\ last.pre.setups > 0 /\ ~last.pre.mounted =>
        /\ NewFrames = {}
        /\ obj.inFlight <= last.pre.inFlight

(* C20. Teardown releases resources: after the unmount of a component that *)
(* had created its detector and attached the camera stream, the detector   *)
(* has been disposed and the tracks of the stream have been stopped.       *)
C20_TeardownReleases ==
    Tracking /\ last.op = "unmount"
             /\ last.pre.detector # 0 /\ last.pre.srcObject # 0 =>
        /\ last.pre.detector \in obj.disposed
        /\ last.pre.srcObject \in obj.stopped

----------------------------------------------------------------------------
(* The RingScene3D component (src/src/components/RingScene3D.tsx 21-139)   *)
(* and its earlier version (src/unnamed/part_001): the mapping of each     *)
(* ring position from canvas pixels to the 3D position of a ring.          *)
(*                                                                         *)
(* Fields of the instance (obj when cls is one of SceneClasses):           *)
(*   width, height, ringPositions    the props of the last render          *)
(*   controls           the values of the leva panel                       *)
(*   rings              the position [x3D, y3D, z3D] of each rendered ring *)
(* Math.tan(vFov / 2) for fov = 75 is irrational; TanHalfFov is its value  *)
(* to four decimals.                                                       *)

TanHalfFov == <<7673, 10000>>

\* cameraZ
CameraZ == One

\* visibleHeight = 2 * Math.tan(vFov / 2) * cameraZ
VisibleHeight == RMul(RMul(R(2), TanHalfFov), CameraZ)

\* a mapping that ignores the aspect ratio
VisibleWidth_square(width, height) == VisibleHeight

\* visibleWidth = visibleHeight * aspect, aspect = width / height
VisibleWidth(width, height) == RMul(VisibleHeight, Norm(width, height))

\* pos.z || 0, of a position whose z is a number
DepthOrZero(pos) == pos.z

\* a mapping that takes the top-left corner as the origin
Project_cornerOrigin(pos, width, height, controls) ==
    LET normX == RDiv(pos.x, R(width))
        normY == RDiv(pos.y, R(height))
        worldX == RMul(normX, VisibleWidth(width, height))
        worldY == RNeg(RMul(normY, VisibleHeight))
    IN  [x3D |-> RAdd(RMul(RNeg(worldX), controls.positionScale),
                      controls.positionOffsetX),
         y3D |-> RAdd(RMul(worldY, controls.positionScale),
                      controls.positionOffsetY),
         z3D |-> RAdd(RMul(DepthOrZero(pos), <<-1, 100>>),
                      controls.positionOffsetZ)]

\* the position of the ring of pos (RingScene3D.tsx 98-120)
Project(pos, width, height, controls) ==
    LET normX == RDiv(pos.x, R(width))
        normY == RDiv(pos.y, R(height))
        worldX == RMul(RSub(normX, <<1, 2>>), VisibleWidth(width, height))
        worldY == RNeg(RMul(RSub(normY, <<1, 2>>), VisibleHeight))
    IN  [x3D |-> RAdd(RMul(RNeg(worldX), controls.positionScale),
                      controls.positionOffsetX),
         y3D |-> RAdd(RMul(worldY, controls.positionScale),
                      controls.positionOffsetY),
         z3D |-> RAdd(RMul(DepthOrZero(pos), <<-1, 100>>),
                      controls.positionOffsetZ)]

\* the position of the ring of pos in the earlier version (part_001 91-96),
\* which has no positionScale control
ProjectEarlier(pos, width, height, controls) ==
    [x3D |-> RAdd(RNeg(RSub(RMul(RDiv(pos.x, R(width)), R(2)), One)),
                  controls.positionOffsetX),
     y3D |-> RAdd(RNeg(RSub(RMul(RDiv(pos.y, R(height)), R(2)), One)),
                  controls.positionOffsetY),
     z3D |-> RAdd(RMul(DepthOrZero(pos), <<-1, 100>>),
                  controls.positionOffsetZ)]

SceneClasses == {"RingScene3D", "RingScene3D_earlier"}

\* ringPositions.map(...): the rings of one render
RenderRings(c) ==
    [i \in DOMAIN c.ringPositions |->
        IF cls = "RingScene3D"
        THEN Project(c.ringPositions[i], c.width, c.height, c.controls)
        ELSE ProjectEarlier(c.ringPositions[i], c.width, c.height, c.controls)]

\* the instance after a render with the props and controls of c
Render(c) == [c EXCEPT !.rings = RenderRings(c)]

----------------------------------------------------------------------------
(* Renders of the scene.  The props come from HandTracking: its width and  *)
(* height and the ring positions of the frame, given here as fractions of  *)
(* the canvas so that the same fraction can be placed on another canvas.   *)

Widths == {320, 640}
Heights == {240, 480}

\* a position at the fractions fx, fy of a width x height canvas, depth z
At(fx, fy, z, handedness, width, height) ==
    [x |-> RMul(fx, R(width)), y |-> RMul(fy, R(height)), z |-> R(z),
     rotation |-> Zero, handedness |-> handedness]

\* the frames: sequences of <<fx, fy, z, handedness>>
Placements ==
    {<< <<<<1, 2>>, <<1, 2>>, 0, "Left">> >>,
     << <<<<1, 4>>, <<1, 2>>, 0, "Left">> >>,
     << <<<<1, 4>>, <<3, 4>>, 10, "Right">>, <<<<1, 2>>, <<1, 2>>, 0, "Left">> >>}

RingPositionsOf(placement, width, height) ==
    [i \in DOMAIN placement |->
        At(placement[i][1], placement[i][2], placement[i][3], placement[i][4],
           width, height)]

Control(positionScale, offsetX, offsetY, offsetZ) ==
    [positionScale |-> positionScale, positionOffsetX |-> offsetX,
     positionOffsetY |-> offsetY, positionOffsetZ |-> offsetZ]

\* the defaults of the panel and two settings a user may choose
ControlValues ==
    {Control(One, Zero, Zero, Zero),
     Control(R(2), Zero, Zero, Zero),
     Control(<<1, 2>>, <<1, 10>>, <<-1, 10>>, <<1, 20>>)}

SceneInit ==
    /\ cls \in SceneClasses
    /\ \E w \in Widths, h \in Heights, pl \in Placements :
         obj = Render([width |-> w, height |-> h,
                       ringPositions |-> RingPositionsOf(pl, w, h),
                       controls |-> Control(One, Zero, Zero, Zero),
                       rings |-> <<>>])
    /\ now = 1
    /\ calls = 0
    /\ last = NoCall

\* HandTracking renders the scene with new props
RenderScene ==
    /\ cls \in SceneClasses
    /\ \E w \in Widths, h \in Heights, pl \in Placements :
         /\ obj' = Render([obj EXCEPT !.width = w, !.height = h,
                                      !.ringPositions = RingPositionsOf(pl, w, h)])
         /\ last' = Call("render", pl, obj, <<>>, "none")
    /\ UNCHANGED <<cls, now, calls>>

\* the user moves a slider of the panel: the scene renders with the new values
SetControls ==
    /\ cls \in SceneClasses
    /\ \E v \in ControlValues :
         /\ obj' = Render([obj EXCEPT !.controls = v])
         /\ last' = Call("controls", <<>>, obj, <<>>, "none")
    /\ UNCHANGED <<cls, now, calls>>

SceneNext ==
    \/ RenderScene
    \/ SetControls

SceneSpec == SceneInit /\ [][SceneNext]_vars

----------------------------------------------------------------------------
(* Properties of the scene.  obj is the instance after the last render and *)
(* last.pre the instance after the render before it.                       *)

Scene == cls \in SceneClasses

\* position i of the render lies at the centre of the canvas with depth 0
AtCentre(c, i) ==
    /\ RMul(R(2), c.ringPositions[i].x) = R(c.width)
    /\ RMul(R(2), c.ringPositions[i].y) = R(c.height)
    /\ c.ringPositions[i].z = Zero

ZeroOffsets(c) ==
    /\ c.controls.positionOffsetX = Zero
    /\ c.controls.positionOffsetY = Zero
    /\ c.controls.positionOffsetZ = Zero

(* C21. Projection of the image centre: whatever the width, the height and *)
(* the position scale, a position at (width/2, height/2) with depth 0 is   *)
(* rendered at x3D = 0 and y3D = 0 when the offsets are 0.                 *)
C21_CentreProjectsToOrigin ==
    Scene =>
        \A i \in DOMAIN obj.ringPositions :
            AtCentre(obj, i) /\ ZeroOffsets(obj) =>
                obj.rings[i].x3D = Zero /\ obj.rings[i].y3D = Zero

\* the current mapping renders a centred position on a canvas that is not
\* 4:3, with the position scale 2, beside a ring that is off the origin
C21_Witness ==
    /\ cls = "RingScene3D"
    /\ obj.width = 320 /\ obj.height = 480
    /\ obj.controls.positionScale = R(2) /\ ZeroOffsets(obj)
    /\ Len(obj.ringPositions) = 2
    /\ AtCentre(obj, 2) /\ obj.rings[2].x3D = Zero /\ obj.rings[2].y3D = Zero
    /\ obj.rings[1].x3D # Zero

\* the last step rendered the same fractional positions with the same panel
\* values on a canvas of the same height and twice the width
WidthDoubled ==
    /\ cls = "RingScene3D" /\ last.op = "render"
    /\ obj.width = 2 * last.pre.width
    /\ obj.controls = last.pre.controls
    /\ DOMAIN obj.ringPositions = DOMAIN last.pre.ringPositions
    /\ \A i \in DOMAIN obj.ringPositions :
          RDiv(obj.ringPositions[i].x, R(obj.width))
            = RDiv(last.pre.ringPositions[i].x, R(last.pre.width))

\* x3D of ring i of the render c without the offset of the panel
WorldXScaled(c, i) == RSub(c.rings[i].x3D, c.controls.positionOffsetX)

(* C22. Projection linearity: doubling the viewport width while keeping    *)
(* the height and the fractional horizontal position of a ring leaves the  *)
(* x3D of the ring unchanged.                                              *)
C22_WidthInvariant ==
    WidthDoubled /\ obj.height = last.pre.height =>
        \A i \in DOMAIN obj.rings : obj.rings[i].x3D = last.pre.rings[i].x3D

(* C22 as amended: the world X of a ring is proportional to the aspect     *)
(* ratio width / height.  Doubling the width at the same height doubles    *)
(* it (x3D less the offset); doubling the width and the height together    *)
(* leaves x3D unchanged.                                                   *)
C22_ProportionalToAspect ==
    /\ WidthDoubled /\ obj.height = last.pre.height =>
          \A i \in DOMAIN obj.rings :
              WorldXScaled(obj, i) = RMul(R(2), WorldXScaled(last.pre, i))
    /\ WidthDoubled /\ obj.height = 2 * last.pre.height =>
          \A i \in DOMAIN obj.rings : obj.rings[i].x3D = last.pre.rings[i].x3D

\* a ring a quarter of the way across is rendered on a canvas twice as wide
\* and moves away from the origin
C22_Witness ==
    /\ WidthDoubled /\ obj.height = last.pre.height
    /\ obj.controls.positionOffsetX # Zero
    /\ RMul(R(4), obj.ringPositions[1].x) = R(obj.width)
    /\ obj.rings[1].x3D # last.pre.rings[1].x3D

====
